---------------------------- MODULE Spec2Model ----------------------------
(***************************************************************************)
(* hack/sync_grafana_dashboards.py of the victoria-metrics-k8s-stack chart *)
(* as a state machine.  Texts are sequences of one-character strings, so   *)
(* that replace, find, split and slicing act on characters as Python's do. *)
(* A JSON value is a record [t, v]: t is "obj" (v: sequence of <<key,      *)
(* value>> in insertion order), "arr" (v: sequence of values), "str" (v:   *)
(* the characters), "num" (v: the digits) or "lit" (v: true, false, null). *)
(***************************************************************************)
EXTENDS Naturals, Integers, Sequences, FiniteSets, TLC

\* the backquote character, which a TLA+ string cannot hold
BT == "backquote"

(***************************************************************************)
(* Python str operations used by the script.                               *)
(***************************************************************************)
Min(a, b) == IF a <= b THEN a ELSE b

Max(a, b) == IF a >= b THEN a ELSE b

\* s[i:i+len(p)] == p, i counted from 1
StartsAt(s, p, i) ==
    /\ i >= 1
    /\ i + Len(p) - 1 <= Len(s)
    /\ SubSeq(s, i, i + Len(p) - 1) = p

\* least index >= i (from 1) where p starts in s, 0 when there is none
FindFrom(s, p, i) ==
    LET hits == {j \in i..(Len(s) - Len(p) + 1) : StartsAt(s, p, j)}
    IN  IF hits = {} THEN 0 ELSE CHOOSE j \in hits : \A k \in hits : j <= k

\* s.find(p): index of the first occurrence counted from 0, -1 when none
find(s, p) == FindFrom(s, p, 1) - 1

\* p in s
Contains(s, p) == FindFrom(s, p, 1) # 0

\* s.endswith(p)
endswith(s, p) == Len(p) <= Len(s) /\ SubSeq(s, Len(s) - Len(p) + 1, Len(s)) = p

\* s[:k], k may be negative
SliceTo(s, k) ==
    IF k >= 0 THEN SubSeq(s, 1, Min(k, Len(s)))
    ELSE SubSeq(s, 1, Max(Len(s) + k, 0))

\* s[k:], k >= 0
SliceFrom(s, k) == SubSeq(s, k + 1, Len(s))

RECURSIVE ReplaceFrom(_, _, _, _)
ReplaceFrom(s, old, new, i) ==
    LET j == FindFrom(s, old, i)
    IN  IF j = 0 THEN SubSeq(s, i, Len(s))
        ELSE SubSeq(s, i, j - 1) \o new \o ReplaceFrom(s, old, new, j + Len(old))

\* s.replace(old, new): every non-overlapping occurrence, leftmost first
replace(s, old, new) == ReplaceFrom(s, old, new, 1)

RECURSIVE SplitFrom(_, _, _)
SplitFrom(s, sep, i) ==
    LET j == FindFrom(s, sep, i)
    IN  IF j = 0 THEN <<SubSeq(s, i, Len(s))>>
        ELSE <<SubSeq(s, i, j - 1)>> \o SplitFrom(s, sep, j + Len(sep))

\* s.split(sep)
split(s, sep) == SplitFrom(s, sep, 1)

RECURSIVE join(_, _)
\* sep.join(parts)
join(sep, parts) ==
    IF parts = <<>> THEN <<>>
    ELSE IF Len(parts) = 1 THEN parts[1]
    ELSE parts[1] \o sep \o join(sep, Tail(parts))

\* the sequence f with every element computed
Seq_(f) == <<>> \o f

\* ' ' * n
Spaces(n) == Seq_([i \in 1..n |-> " "])

Whitespace == {" ", "\n", "\t", "\r"}

\* len(s) - len(s.lstrip())
LeadingWhitespace(s) ==
    LET rest == {i \in 1..Len(s) : s[i] \notin Whitespace}
    IN  IF rest = {} THEN Len(s) ELSE (CHOOSE i \in rest : \A k \in rest : i <= k) - 1

\* a local name of the code: body is evaluated with the name bound to value
Let(value, body(_)) == body(value)

NL == <<"\n">>

(***************************************************************************)
(* escape / unescape (lines 101-106).                                      *)
(***************************************************************************)
escape(s) ==
    replace(replace(replace(replace(s,
        <<"{","{">>, <<"{","{",BT,"{","{">>),
        <<"}","}">>, <<"}","}",BT,"}","}">>),
        <<"{","{",BT,"{","{">>, <<"{","{",BT,"{","{",BT,"}","}">>),
        <<"}","}",BT,"}","}">>, <<"{","{",BT,"}","}",BT,"}","}">>)

unescape(s) == replace(replace(s, <<"\\","{","\\","{">>, <<"{","{">>), <<"\\","}","\\","}">>, <<"}","}">>)

(***************************************************************************)
(* The json module: loads on the subset of JSON the inputs are written in  *)
(* (objects, arrays, strings with the escapes \" and \\, unsigned          *)
(* integers, true/false/null), and dumps(value, indent=4).                 *)
(***************************************************************************)
Digits == {"0", "1", "2", "3", "4", "5", "6", "7", "8", "9"}

Node(t, v) == [t |-> t, v |-> v]

Fail == [ok |-> FALSE, node |-> Node("lit", <<>>), next |-> 0]

Parsed(n, i) == [ok |-> TRUE, node |-> n, next |-> i]

SkipWs(s, i) ==
    LET rest == {j \in i..Len(s) : s[j] \notin Whitespace}
    IN  IF rest = {} THEN Len(s) + 1 ELSE CHOOSE j \in rest : \A k \in rest : j <= k

\* d[k] = v on a dict kept as a sequence of pairs: a present key keeps its place
DictSet(d, k, v) ==
    IF \E i \in 1..Len(d) : d[i][1] = k
    THEN Seq_([i \in 1..Len(d) |-> IF d[i][1] = k THEN <<k, v>> ELSE d[i]])
    ELSE Append(d, <<k, v>>)

HasKey(d, k) == \E i \in 1..Len(d) : d[i][1] = k

DictGet(d, k) == d[CHOOSE i \in 1..Len(d) : d[i][1] = k][2]

RECURSIVE ParseStringFrom(_, _, _)
\* the characters of a string literal whose opening quote precedes index i
ParseStringFrom(s, i, acc) ==
    IF i > Len(s) THEN Fail
    ELSE IF s[i] = "\"" THEN Parsed(Node("str", acc), i + 1)
    ELSE IF s[i] = "\n" THEN Fail
    ELSE IF s[i] = "\\"
         THEN IF i + 1 <= Len(s) /\ s[i + 1] \in {"\"", "\\"}
              THEN ParseStringFrom(s, i + 2, Append(acc, s[i + 1]))
              ELSE Fail
    ELSE ParseStringFrom(s, i + 1, Append(acc, s[i]))

ParseNumber(s, i) ==
    LET stop == {j \in i..Len(s) : s[j] \notin Digits}
        e == IF stop = {} THEN Len(s) + 1 ELSE CHOOSE j \in stop : \A k \in stop : j <= k
    IN  IF e - i > 1 /\ s[i] = "0" THEN Fail
        ELSE Parsed(Node("num", SubSeq(s, i, e - 1)), e)

ParseLiteral(s, i) ==
    IF StartsAt(s, <<"t","r","u","e">>, i) THEN Parsed(Node("lit", <<"t","r","u","e">>), i + 4)
    ELSE IF StartsAt(s, <<"f","a","l","s","e">>, i) THEN Parsed(Node("lit", <<"f","a","l","s","e">>), i + 5)
    ELSE IF StartsAt(s, <<"n","u","l","l">>, i) THEN Parsed(Node("lit", <<"n","u","l","l">>), i + 4)
    ELSE Fail

RECURSIVE ParseValue(_, _)
RECURSIVE ParseMembers(_, _, _)
RECURSIVE ParseElements(_, _, _)
\* the value starting at index i (after whitespace)
ParseValue(s, i0) ==
    LET i == SkipWs(s, i0)
    IN  IF i > Len(s) THEN Fail
        ELSE IF s[i] = "{"
             THEN LET j == SkipWs(s, i + 1)
                  IN  IF j <= Len(s) /\ s[j] = "}" THEN Parsed(Node("obj", <<>>), j + 1)
                      ELSE ParseMembers(s, j, <<>>)
        ELSE IF s[i] = "["
             THEN LET j == SkipWs(s, i + 1)
                  IN  IF j <= Len(s) /\ s[j] = "]" THEN Parsed(Node("arr", <<>>), j + 1)
                      ELSE ParseElements(s, j, <<>>)
        ELSE IF s[i] = "\"" THEN ParseStringFrom(s, i + 1, <<>>)
        ELSE IF s[i] \in Digits THEN ParseNumber(s, i)
        ELSE ParseLiteral(s, i)

\* "key": value members from index i, up to and including the closing brace
ParseMembers(s, i, acc) ==
    IF i > Len(s) \/ s[i] # "\"" THEN Fail
    ELSE LET k == ParseStringFrom(s, i + 1, <<>>)
         IN  IF ~k.ok THEN Fail
             ELSE LET c == SkipWs(s, k.next)
                  IN  IF c > Len(s) \/ s[c] # ":" THEN Fail
                      ELSE LET val == ParseValue(s, c + 1)
                           IN  IF ~val.ok THEN Fail
                               ELSE LET e == SkipWs(s, val.next)
                                        d == DictSet(acc, k.node.v, val.node)
                                    IN  IF e > Len(s) THEN Fail
                                        ELSE IF s[e] = "}" THEN Parsed(Node("obj", d), e + 1)
                                        ELSE IF s[e] = "," THEN ParseMembers(s, SkipWs(s, e + 1), d)
                                        ELSE Fail

\* array elements from index i, up to and including the closing bracket
ParseElements(s, i, acc) ==
    LET val == ParseValue(s, i)
    IN  IF ~val.ok THEN Fail
        ELSE LET e == SkipWs(s, val.next)
                 a == Append(acc, val.node)
             IN  IF e > Len(s) THEN Fail
                 ELSE IF s[e] = "]" THEN Parsed(Node("arr", a), e + 1)
                 ELSE IF s[e] = "," THEN ParseElements(s, SkipWs(s, e + 1), a)
                 ELSE Fail

\* json.loads(text): [ok |-> FALSE] stands for the ValueError it raises
loads(text) ==
    Let(ParseValue(text, 1),
        LAMBDA r : IF r.ok /\ SkipWs(text, r.next) > Len(text) THEN r ELSE Fail)

\* a string as json.dumps writes it
DumpString(s) ==
    <<"\"">> \o replace(replace(s, <<"\\">>, <<"\\", "\\">>), <<"\"">>, <<"\\", "\"">>) \o <<"\"">>

\* the same line with a comma after it when more follows
WithComma(lines, more) ==
    IF more THEN Seq_([i \in 1..Len(lines) |-> IF i = Len(lines) THEN lines[i] \o <<",">> ELSE lines[i]])
    ELSE lines

RECURSIVE DumpLines(_, _)
RECURSIVE DumpItems(_, _, _, _)
\* item i.. of a container at nesting level lvl: the lines of each item, indented
DumpItems(n, lvl, i, isObj) ==
    IF i > Len(n.v) THEN <<>>
    ELSE LET val == IF isObj THEN n.v[i][2] ELSE n.v[i]
             head == Spaces(4 * lvl) \o (IF isObj THEN DumpString(n.v[i][1]) \o <<":"," ">> ELSE <<>>)
             body == DumpLines(val, lvl)
             mine == Seq_([j \in 1..Len(body) |-> IF j = 1 THEN head \o body[j] ELSE body[j]])
         IN  WithComma(mine, i < Len(n.v)) \o DumpItems(n, lvl, i + 1, isObj)

\* the lines of json.dumps(n, indent=4) for a value met at nesting level lvl;
\* the first line carries no indentation of its own
DumpLines(n, lvl) ==
    IF n.t = "str" THEN <<DumpString(n.v)>>
    ELSE IF n.t \in {"num", "lit"} THEN <<n.v>>
    ELSE IF n.t = "obj"
         THEN IF n.v = <<>> THEN <<<<"{","}">>>>
              ELSE <<<<"{">>>> \o DumpItems(n, lvl + 1, 1, TRUE) \o <<Spaces(4 * lvl) \o <<"}">>>>
    ELSE IF n.v = <<>> THEN <<<<"[","]">>>>
         ELSE <<<<"[">>>> \o DumpItems(n, lvl + 1, 1, FALSE) \o <<Spaces(4 * lvl) \o <<"]">>>>

\* json.dumps(n, indent=4)
dumps(n) == join(NL, DumpLines(n, 0))

(***************************************************************************)
(* patch_json_for_multicluster_configuration (lines 122-160).  A step      *)
(* that raises yields exc; ValueError and KeyError are caught at line 157, *)
(* every other exception leaves the function.                              *)
(***************************************************************************)
Sentinel == <<":","m","u","l","t","i","c","l","u","s","t","e","r",":">>

\* lines 152-156: the text put in place of the quoted sentinel
HideExpression ==
    <<"\\","{","\\","{"," ","i","f"," ",".","V","a","l","u","e","s",".","g","r","a","f","a","n","a",".","s","i","d","e","c","a","r",".","d","a","s","h","b","o","a","r","d","s",".","m","u","l","t","i","c","l","u","s","t","e","r"," ","\\","}","\\","}","0","\\","{","\\","{"," ","e","l","s","e"," ","\\","}","\\","}","2","\\","{","\\","{"," ","e","n","d"," ","\\","}","\\","}">>

Raised(e) == [exc |-> e, node |-> Node("lit", <<>>)]

Value(n) == [exc |-> "none", node |-> n]

\* n[key] for a string key
Subscript(n, key) ==
    IF n.t # "obj" THEN Raised("TypeError")
    ELSE IF ~HasKey(n.v, key) THEN Raised("KeyError")
    ELSE Value(DictGet(n.v, key))

\* what `for variable in n` yields; a number, true, false or null is not iterable
Iterable(n) == n.t \in {"arr", "obj", "str"}

Elements(n) ==
    IF n.t = "arr" THEN n.v
    ELSE IF n.t = "obj" THEN Seq_([i \in 1..Len(n.v) |-> Node("str", n.v[i][1])])
    ELSE Seq_([i \in 1..Len(n.v) |-> Node("str", <<n.v[i]>>)])

\* lines 127-128 for one variable
MarkVariable(variable) ==
    LET name == Subscript(variable, <<"n","a","m","e">>)
    IN  IF name.exc # "none" THEN name
        ELSE IF name.node = Node("str", <<"c","l","u","s","t","e","r">>)
             THEN Value(Node("obj", DictSet(variable.v, <<"h","i","d","e">>, Node("str", Sentinel))))
             ELSE Value(variable)

RECURSIVE MarkAll(_, _, _)
\* lines 126-129: the loop, stopping at the first variable that raises
MarkAll(vars, i, overwrite_list) ==
    IF i > Len(vars) THEN Value(Node("arr", overwrite_list))
    ELSE LET m == MarkVariable(vars[i])
         IN  IF m.exc # "none" THEN m
             ELSE MarkAll(vars, i + 1, Append(overwrite_list, m.node))

\* lines 126-130: content_struct with every 'cluster' variable's hide set
MarkCluster(content_struct) ==
    LET templating == Subscript(content_struct, <<"t","e","m","p","l","a","t","i","n","g">>)
    IN  IF templating.exc # "none" THEN templating
        ELSE LET list == Subscript(templating.node, <<"l","i","s","t">>)
             IN  IF list.exc # "none" THEN list
                 ELSE IF ~Iterable(list.node) THEN Raised("TypeError")
                 ELSE LET marked == MarkAll(Elements(list.node), 1, <<>>)
                      IN  IF marked.exc # "none" THEN marked
                          ELSE Value(Node("obj", DictSet(content_struct.v, <<"t","e","m","p","l","a","t","i","n","g">>,
                                   Node("obj", DictSet(templating.node.v, <<"l","i","s","t">>, marked.node)))))

HasEmptyLiteral(line) == Contains(line, <<"[","]">>) \/ Contains(line, <<"{","}">>)

\* lines 138-146: what the loop appends for a line it does not keep
SplitLine(line0) ==
    LET comma == endswith(line0, <<",">>)
        line == IF comma THEN SliceTo(line0, -1) ELSE line0
        append == IF comma THEN <<",">> ELSE <<>>
    IN  IF endswith(line, <<"{","}">>) \/ endswith(line, <<"[","]">>)
        THEN << SliceTo(line, -1),
                <<>>,
                Spaces(LeadingWhitespace(line)) \o <<line[Len(line)]>> \o append >>
        ELSE <<>>

RECURSIVE Reconcile(_, _, _, _)
\* lines 133-146: the loop from line i (counted from 1) of the new text on
Reconcile(lines, original_content_lines, i, content_array) ==
    IF i > Len(lines) THEN [exc |-> "none", lines |-> content_array]
    ELSE IF ~HasEmptyLiteral(lines[i])
         THEN Reconcile(lines, original_content_lines, i + 1, Append(content_array, lines[i]))
    ELSE IF i > Len(original_content_lines) THEN [exc |-> "IndexError", lines |-> content_array]
    ELSE IF lines[i] = original_content_lines[i]
         THEN Reconcile(lines, original_content_lines, i + 1, Append(content_array, lines[i]))
    ELSE Reconcile(lines, original_content_lines, i + 1, content_array \o SplitLine(lines[i]))

\* lines 150-156: the first sentinel, with the character before it and the
\* one after it, replaced by the hide expression
ReplaceSentinel(content) ==
    LET multicluster == find(content, Sentinel)
    IN  IF multicluster # -1
        THEN SliceTo(content, multicluster - 1) \o HideExpression
                 \o SliceFrom(content, multicluster + 15)
        ELSE content

Caught == {"ValueError", "KeyError"}

\* the function's run on content: the exception of the step that failed (or
\* "none"), the lines of the dumped structure, content_array, and the text
\* returned (none when the exception leaves the function)
PatchRun(content) ==
    Let(loads(content), LAMBDA content_struct :
    Let(IF content_struct.ok THEN MarkCluster(content_struct.node) ELSE Raised("ValueError"),
        LAMBDA marked :
    Let(IF marked.exc = "none" THEN split(dumps(marked.node), NL) ELSE <<>>,
        LAMBDA dumped :
    Let(IF marked.exc = "none"
        THEN Reconcile(dumped, split(content, NL), 1, <<>>)
        ELSE [exc |-> marked.exc, lines |-> <<>>],
        LAMBDA rec :
        [ exc |-> rec.exc,
          dumped |-> dumped,
          content_array |-> rec.lines,
          returns |-> rec.exc \in Caught \cup {"none"},
          text |-> IF rec.exc = "none" THEN ReplaceSentinel(join(NL, rec.lines))
                   ELSE IF rec.exc \in Caught THEN content
                   ELSE <<>> ]))))

patch_json_for_multicluster_configuration(content) == PatchRun(content).text


(***************************************************************************)
(* yaml_str_repr (lines 109-119) on the single-entry mapping               *)
(* {key: LiteralStr(content)} that write_group_to_file builds.  The        *)
(* contents used are non-empty and have no space before a line break or at *)
(* the end, where PyYAML keeps the literal block style asked for.          *)
(***************************************************************************)
\* the block scalar header's indentation and chomping indicators
BlockHints(content) ==
    (IF content[1] \in {" ", "\n"} THEN <<"2">> ELSE <<>>)
    \o (IF content[Len(content)] # "\n" THEN <<"-">>
        ELSE IF Len(content) = 1 \/ content[Len(content) - 1] = "\n" THEN <<"+">>
        ELSE <<>>)

\* yaml.dump({key: LiteralStr(content)}, width=1000, default_flow_style=False)
yaml_dump(key, content) ==
    LET lines == split(content, NL)
        body == Seq_([i \in 1..Len(lines) |->
                    IF lines[i] = <<>> THEN <<>> ELSE Spaces(2) \o lines[i]])
    IN  IF content = <<>> THEN key \o <<":"," ","\"","\"">> \o NL
        ELSE key \o <<":"," ","|">> \o BlockHints(content) \o NL \o join(NL, body)
                 \o (IF content[Len(content)] # "\n" THEN NL ELSE <<>>)

\* textwrap.indent(text, ' ' * indent): lines of whitespace only are left alone
indent(text, n) ==
    LET lines == split(text, NL)
    IN  join(NL, Seq_([i \in 1..Len(lines) |->
                     IF \A j \in 1..Len(lines[i]) : lines[i][j] \in Whitespace
                     THEN lines[i] ELSE Spaces(n) \o lines[i]]))

yaml_str_repr(key, content) == indent(unescape(escape(yaml_dump(key, content))), 2)

(***************************************************************************)
(* The module's tables (lines 27-72).                                      *)
(***************************************************************************)
UrlKubePrometheus == "https://raw.githubusercontent.com/prometheus-operator/kube-prometheus/master/manifests/grafana-dashboardDefinitions.yaml"

UrlEtcd == "https://etcd.io/docs/v3.4/op-guide/grafana.json"

UrlVictoriaMetrics == "https://raw.githubusercontent.com/VictoriaMetrics/VictoriaMetrics/master/dashboards/victoriametrics.json"

UrlVmagent == "https://raw.githubusercontent.com/VictoriaMetrics/VictoriaMetrics/master/dashboards/vmagent.json"

UrlClusterByTenant == "https://raw.githubusercontent.com/VictoriaMetrics/VictoriaMetrics/cluster/dashboards/clusterbytenant.json"

Destination == "../templates/grafana/dashboards"

charts == <<
    [source |-> UrlKubePrometheus, destination |-> Destination, type |-> "yaml"],
    [source |-> UrlEtcd, destination |-> Destination, type |-> "json"],
    [source |-> UrlVictoriaMetrics, destination |-> Destination, type |-> "json"],
    [source |-> UrlVmagent, destination |-> Destination, type |-> "json"],
    [source |-> UrlClusterByTenant, destination |-> Destination, type |-> "json"] >>

\* the characters of each source URL
Chars(url) ==
    CASE url = UrlKubePrometheus ->
           <<"h","t","t","p","s",":","/","/","r","a","w",".","g","i","t","h","u","b","u","s","e","r","c","o","n","t","e","n","t",".","c","o","m","/","p","r","o","m","e","t","h","e","u","s","-","o","p","e","r","a","t","o","r","/","k","u","b","e","-","p","r","o","m","e","t","h","e","u","s","/","m","a","s","t","e","r","/","m","a","n","i","f","e","s","t","s","/","g","r","a","f","a","n","a","-","d","a","s","h","b","o","a","r","d","D","e","f","i","n","i","t","i","o","n","s",".","y","a","m","l">>
      [] url = UrlEtcd ->
           <<"h","t","t","p","s",":","/","/","e","t","c","d",".","i","o","/","d","o","c","s","/","v","3",".","4","/","o","p","-","g","u","i","d","e","/","g","r","a","f","a","n","a",".","j","s","o","n">>
      [] url = UrlVictoriaMetrics ->
           <<"h","t","t","p","s",":","/","/","r","a","w",".","g","i","t","h","u","b","u","s","e","r","c","o","n","t","e","n","t",".","c","o","m","/","V","i","c","t","o","r","i","a","M","e","t","r","i","c","s","/","V","i","c","t","o","r","i","a","M","e","t","r","i","c","s","/","m","a","s","t","e","r","/","d","a","s","h","b","o","a","r","d","s","/","v","i","c","t","o","r","i","a","m","e","t","r","i","c","s",".","j","s","o","n">>
      [] url = UrlVmagent ->
           <<"h","t","t","p","s",":","/","/","r","a","w",".","g","i","t","h","u","b","u","s","e","r","c","o","n","t","e","n","t",".","c","o","m","/","V","i","c","t","o","r","i","a","M","e","t","r","i","c","s","/","V","i","c","t","o","r","i","a","M","e","t","r","i","c","s","/","m","a","s","t","e","r","/","d","a","s","h","b","o","a","r","d","s","/","v","m","a","g","e","n","t",".","j","s","o","n">>
      [] url = UrlClusterByTenant ->
           <<"h","t","t","p","s",":","/","/","r","a","w",".","g","i","t","h","u","b","u","s","e","r","c","o","n","t","e","n","t",".","c","o","m","/","V","i","c","t","o","r","i","a","M","e","t","r","i","c","s","/","V","i","c","t","o","r","i","a","M","e","t","r","i","c","s","/","c","l","u","s","t","e","r","/","d","a","s","h","b","o","a","r","d","s","/","c","l","u","s","t","e","r","b","y","t","e","n","a","n","t",".","j","s","o","n">>

skip_list == { <<"p","r","o","m","e","t","h","e","u","s",".","j","s","o","n">>, <<"p","r","o","m","e","t","h","e","u","s","-","r","e","m","o","t","e","-","w","r","i","t","e",".","j","s","o","n">> }

condition_map == <<
    << <<"g","r","a","f","a","n","a","-","c","o","r","e","d","n","s","-","k","8","s">>, " .Values.coreDns.enabled" >>,
    << <<"e","t","c","d">>, " .Values.kubeEtcd.enabled" >>,
    << <<"a","p","i","s","e","r","v","e","r">>, " .Values.kubeApiServer.enabled" >>,
    << <<"c","o","n","t","r","o","l","l","e","r","-","m","a","n","a","g","e","r">>, " .Values.kubeControllerManager.enabled" >>,
    << <<"k","u","b","e","l","e","t">>, " .Values.kubelet.enabled" >>,
    << <<"p","r","o","x","y">>, " .Values.kubeProxy.enabled" >>,
    << <<"s","c","h","e","d","u","l","e","r">>, " .Values.kubeScheduler.enabled" >>,
    << <<"n","o","d","e","-","r","s","r","c","-","u","s","e">>, " (index .Values \"prometheus-node-exporter\" \"enabled\")" >>,
    << <<"n","o","d","e","-","c","l","u","s","t","e","r","-","r","s","r","c","-","u","s","e">>, " (index .Values \"prometheus-node-exporter\" \"enabled\")" >>,
    << <<"c","l","u","s","t","e","r","b","y","t","e","n","a","n","t">>, " .Values.vmcluster.enabled" >> >>

\* condition_map.get(resource_name, '')
Condition(resource_name) ==
    IF HasKey(condition_map, resource_name) THEN DictGet(condition_map, resource_name) ELSE ""

(***************************************************************************)
(* write_group_to_file (lines 163-190).  The text written is the header    *)
(* with name, url and condition filled in, the mapping's representation    *)
(* and the fixed footer; it is kept as the record of its varying parts.    *)
(***************************************************************************)
FileText(resource_name, patched, url) ==
    [ name |-> resource_name,
      url |-> url,
      condition |-> Condition(resource_name),
      data |-> yaml_str_repr(resource_name \o <<".","j","s","o","n">>, patched) ]

\* line 180 keeping the extension of the mapping's key
FileNameJson(resource_name) == resource_name \o <<".","j","s","o","n">>

\* line 180
FileName(resource_name) == resource_name \o <<".","y","a","m","l">>

\* line 187 opening the file with 'a': the text is added to what the file holds
WriteFileAppend(dir, filename, lines) ==
    [f \in DOMAIN dir \cup {filename} |->
        IF f # filename THEN dir[f]
        ELSE IF f \in DOMAIN dir THEN [lines EXCEPT !.data = dir[f].data \o lines.data]
        ELSE lines]

\* open(new_filename, 'w') and f.write(lines): the file is created or replaced
WriteFile(dir, filename, lines) ==
    [f \in DOMAIN dir \cup {filename} |-> IF f = filename THEN lines ELSE dir[f]]

\* a file open(..., 'w') has truncated and nothing was written to
Truncated == [name |-> <<>>, url |-> "", condition |-> "", data |-> <<>>]

\* os.path.basename
basename(p) ==
    LET slashes == {i \in 1..Len(p) : p[i] = "/"}
    IN  IF slashes = {} THEN p
        ELSE SubSeq(p, (CHOOSE i \in slashes : \A k \in slashes : k <= i) + 1, Len(p))

\* line 217 without path.basename
ResourceOfUrlPath(url) == replace(Chars(url), <<".","j","s","o","n">>, <<>>)

\* line 217
ResourceOfUrl(url) == replace(basename(Chars(url)), <<".","j","s","o","n">>, <<>>)

\* lines 211 and 221
ResourceOfKey(resource) == replace(resource, <<".","j","s","o","n">>, <<>>)

(***************************************************************************)
(* What the sources answer.  A response is [status, kind, items, text]:    *)
(* for the YAML source, kind tells what yaml.full_load makes of the body   *)
(* ("error": it raises; "noitems": a mapping without 'items'; "bundle": a  *)
(* mapping whose 'items' are the groups numbered in items); for a JSON     *)
(* source, text is the body.                                               *)
(***************************************************************************)
MaxGroups == 2

\* a dashboard as jsonnet writes it, empty literals spread over three lines
DashSpread ==
    <<"{","\n"," "," "," "," ","\"","l","i","n","k","s","\"",":"," ","[","\n","\n"," "," "," "," ","]",",","\n"," "," "," "," ","\"","t","e","m","p","l","a","t","i","n","g","\"",":"," ","{","\n"," "," "," "," "," "," "," "," ","\"","l","i","s","t","\"",":"," ","[","\n"," "," "," "," "," "," "," "," "," "," "," "," ","{","\n"," "," "," "," "," "," "," "," "," "," "," "," "," "," "," "," ","\"","h","i","d","e","\"",":"," ","0",",","\n"," "," "," "," "," "," "," "," "," "," "," "," "," "," "," "," ","\"","n","a","m","e","\"",":"," ","\"","c","l","u","s","t","e","r","\"","\n"," "," "," "," "," "," "," "," "," "," "," "," ","}","\n"," "," "," "," "," "," "," "," ","]","\n"," "," "," "," ","}","\n","}">>

DashNoTemplating == <<"{","\"","t","i","t","l","e","\"",":"," ","\"","x","\"","}">>

DashCompact == <<"{","\"","t","e","m","p","l","a","t","i","n","g","\"",":"," ","{","\"","l","i","s","t","\"",":"," ","[","]","}","}">>

NotJson == <<"n","/","a">>

\* the groups a bundle is made of: 'data' as (filename, content) pairs in order
GroupKinds == <<
    [hasData |-> TRUE,
     data |-> << << <<"a",".","j","s","o","n">>, DashSpread >>, << <<"p","r","o","m","e","t","h","e","u","s",".","j","s","o","n">>, DashNoTemplating >> >>],
    [hasData |-> TRUE,
     data |-> << << <<"a">>, NotJson >>, << <<"b",".","j","s","o","n">>, DashNoTemplating >> >>],
    [hasData |-> FALSE, data |-> <<>>],
    [hasData |-> TRUE, data |-> << << <<"c",".","j","s","o","n">>, DashCompact >> >>] >>

Response(status, kind, items, text) ==
    [status |-> status, kind |-> kind, items |-> items, text |-> text]

Unavailable == Response(503, "none", <<>>, <<"S","e","r","v","i","c","e"," ","U","n","a","v","a","i","l","a","b","l","e">>)

Bundles == UNION {[1..n -> 1..Len(GroupKinds)] : n \in 0..MaxGroups}

YamlResponses ==
    {Unavailable, Response(200, "error", <<>>, <<>>), Response(200, "noitems", <<>>, <<>>)}
    \cup {Response(200, "bundle", b, <<>>) : b \in Bundles}

JsonFlat ==
    <<"{","\"","a","n","n","o","t","a","t","i","o","n","s","\"",":"," ","{","\"","l","i","s","t","\"",":"," ","[","]","}",","," ","\"","t","e","m","p","l","a","t","i","n","g","\"",":"," ","{","\"","l","i","s","t","\"",":"," ","[","{","\"","n","a","m","e","\"",":"," ","\"","c","l","u","s","t","e","r","\"",","," ","\"","h","i","d","e","\"",":"," ","0","}","]","}","}">>

JsonNested == <<"{","\"","e","t","c","d",".","j","s","o","n","\"",":"," ","{","\"","t","i","t","l","e","\"",":"," ","\"","e","t","c","d","\"","}",","," ","\"","p","r","o","m","e","t","h","e","u","s",".","j","s","o","n","\"",":"," ","{","\"","t","i","t","l","e","\"",":"," ","\"","p","\"","}","}">>

JsonBad == <<"<","h","t","m","l",">">>

JsonResponses ==
    {Unavailable} \cup {Response(200, "text", <<>>, body) : body \in {JsonFlat, JsonNested, JsonBad}}

Responses(type) == IF type = "yaml" THEN YamlResponses ELSE JsonResponses

(***************************************************************************)
(* main (lines 193-222): what one source's response makes the loop body    *)
(* do.  A plan is the calls of write_group_to_file in order, each with the *)
(* text it writes or the fact that the patch raises, and whether an        *)
(* exception ends the run after them.                                      *)
(***************************************************************************)
\* line 199 testing for a status below 200 instead of one other than 200
StatusOkLoose(response) == response.status >= 200

\* line 199
StatusOk(response) == response.status = 200

\* line 209 with the key compared after its '.json' is removed
IsSkippedBase(resource) == replace(resource, <<".","j","s","o","n">>, <<>>) \in skip_list

\* line 209
IsSkipped(resource) == resource \in skip_list

\* bool(value) of a JSON value
Truthy(n) ==
    IF n.t = "num" THEN \E i \in 1..Len(n.v) : n.v[i] # "0"
    ELSE IF n.t = "lit" THEN n.v = <<"t","r","u","e">>
    ELSE n.v # <<>>

\* write_group_to_file(resource_name, content, url, destination) up to line 178
Call(resource_name, content, url) ==
    Let(PatchRun(content), LAMBDA p :
        [ resource |-> resource_name,
          raises |-> ~p.returns,
          lines |-> IF p.returns THEN FileText(resource_name, p.text, url) ELSE Truncated ])

\* lines 208-211 for one group: the (resource name, content) pairs handed
\* to write_group_to_file
GroupEntries(group) ==
    Let(SelectSeq(group.data, LAMBDA e : ~IsSkipped(e[1])), LAMBDA kept :
        Seq_([i \in 1..Len(kept) |-> <<ResourceOfKey(kept[i][1]), kept[i][2]>>]))

RECURSIVE YamlEntries(_, _, _)
\* lines 207-211 from group g on; a group without 'data' raises KeyError
YamlEntries(items, g, entries) ==
    IF g > Len(items) THEN [entries |-> entries, raises |-> FALSE]
    ELSE IF ~GroupKinds[items[g]].hasData THEN [entries |-> entries, raises |-> TRUE]
    ELSE YamlEntries(items, g + 1, entries \o GroupEntries(GroupKinds[items[g]]))

\* lines 217-221 for the parsed document
JsonGroups(json_text, url) ==
    IF HasKey(json_text.v, <<"a","n","n","o","t","a","t","i","o","n","s">>) /\ Truthy(DictGet(json_text.v, <<"a","n","n","o","t","a","t","i","o","n","s">>))
    THEN <<<<ResourceOfUrl(url), dumps(json_text)>>>>
    ELSE Seq_([i \in 1..Len(json_text.v) |->
                 <<ResourceOfKey(json_text.v[i][1]), dumps(json_text.v[i][2])>>])

\* lines 213-221
JsonEntries(raw_text, url) ==
    Let(loads(raw_text), LAMBDA parsed :
        IF ~parsed.ok \/ parsed.node.t # "obj" THEN [entries |-> <<>>, raises |-> TRUE]
        ELSE [entries |-> JsonGroups(parsed.node, url), raises |-> FALSE])

\* lines 204-221: the calls of write_group_to_file main makes for one chart
\* and its response, in order, and whether the loop then raises
EntriesOf(chart, response) ==
    IF chart.type = "yaml"
    THEN IF response.kind # "bundle" THEN [entries |-> <<>>, raises |-> TRUE]
         ELSE YamlEntries(response.items, 1, <<>>)
    ELSE JsonEntries(response.text, chart.source)

\* the same calls with what each of them does
PlanOf(chart, response) ==
    Let(EntriesOf(chart, response), LAMBDA e :
        [ calls |-> Seq_([i \in 1..Len(e.entries) |->
                            Call(e.entries[i][1], e.entries[i][2], chart.source)]),
          raises |-> e.raises ])

\* every chart's plan under every response it may get, computed once
Plans ==
    { <<i, r, PlanOf(charts[i], r)>> : i \in 1..Len(charts), r \in YamlResponses \cup JsonResponses }

Plan(i, r) == (CHOOSE p \in Plans : p[1] = i /\ p[2] = r)[3]

(***************************************************************************)
(* Inputs of the function-level specifications.                            *)
(***************************************************************************)
MaxVars == 2

MaxTokens == 3

JsonOf(text) == loads(text).node

\* entries of templating.list
VarKinds == <<
    JsonOf(<<"{","\"","n","a","m","e","\"",":"," ","\"","c","l","u","s","t","e","r","\"",","," ","\"","h","i","d","e","\"",":"," ","0","}">>),
    JsonOf(<<"{","\"","n","a","m","e","\"",":"," ","\"","c","l","u","s","t","e","r","\"",","," ","\"","o","p","t","i","o","n","s","\"",":"," ","[","]","}">>),
    JsonOf(<<"{","\"","n","a","m","e","\"",":"," ","\"","j","o","b","\"",","," ","\"","q","u","e","r","y","\"",":"," ","\"","u","p","{","}","\"",","," ","\"","h","i","d","e","\"",":"," ","0","}">>),
    JsonOf(<<"{","\"","h","i","d","e","\"",":"," ","0","}">>),
    JsonOf(<<"\"","c","l","u","s","t","e","r","\"">>) >>

\* members before and after 'templating'
PreKinds == <<
    <<>>,
    << << <<"l","i","n","k","s">>, JsonOf(<<"[","]">>) >> >>,
    << << <<"t","i","t","l","e">>, JsonOf(<<"\"",":","m","u","l","t","i","c","l","u","s","t","e","r",":","\"">>) >> >>,
    << << <<"e","x","p","r">>, JsonOf(<<"\"","u","p","{","}","\"">>) >> >> >>

PostKinds == <<
    <<>>,
    << << <<"p","a","n","e","l","s">>, JsonOf(<<"[","]">>) >>, << <<"e","x","p","r">>, JsonOf(<<"\"","s","u","m","(","u","p","{","}",")"," ","b","y"," ","(","j","o","b",")","\"">>) >> >> >>

Dashboard(pre, vars, post) ==
    Node("obj", pre
        \o << << <<"t","e","m","p","l","a","t","i","n","g">>, Node("obj", << << <<"l","i","s","t">>, Node("arr", vars) >> >>) >> >>
        \o post)

Dashboards ==
    { Dashboard(PreKinds[p], Seq_([i \in 1..Len(vs) |-> VarKinds[vs[i]]]), PostKinds[q]) :
        p \in 1..Len(PreKinds), q \in 1..Len(PostKinds),
        vs \in UNION {[1..n -> 1..Len(VarKinds)] : n \in 0..MaxVars} }

RECURSIVE SpreadLines(_)
\* jsonnet's layout: every empty object or array takes three lines
SpreadLines(lines) ==
    IF lines = <<>> THEN <<>>
    ELSE (IF SplitLine(lines[1]) = <<>> THEN <<lines[1]>> ELSE SplitLine(lines[1]))
         \o SpreadLines(Tail(lines))

\* the dashboard on one line
CompactText(n) ==
    LET lines == DumpLines(n, 0)
    IN  join(<<>>, Seq_([i \in 1..Len(lines) |-> SliceFrom(lines[i], LeadingWhitespace(lines[i]))]))

OddContents == {
    <<>>, NotJson, DashSpread, DashNoTemplating, DashCompact,
    <<"{","}">>, <<"[","]">>, <<"7">>, <<"{","\"","t","e","m","p","l","a","t","i","n","g","\"",":"," ","{","}","}">>, <<"{","\"","t","e","m","p","l","a","t","i","n","g","\"",":"," ","n","u","l","l","}">>,
    <<"{","\"","t","e","m","p","l","a","t","i","n","g","\"",":"," ","{","\"","l","i","s","t","\"",":"," ","{","}","}","}">>, <<"{","\"","t","e","m","p","l","a","t","i","n","g","\"",":"," ","{","\"","l","i","s","t","\"",":"," ","7","}","}">>,
    <<"{","\"","t","e","m","p","l","a","t","i","n","g","\"",":"," ","{","\"","l","i","s","t","\"",":"," ","[","[","]","]","}","}">>, <<"{","\"","a","\"",":"," ","\"","\\","{","\\","{","\"","}">> }

PatchInputs ==
    OddContents
    \cup {dumps(d) : d \in Dashboards}
    \cup {join(NL, SpreadLines(DumpLines(d, 0))) : d \in Dashboards}
    \cup {CompactText(d) : d \in Dashboards}

\* the pieces a dumped text is made of
TokenKinds == << <<"\\","{","\\","{">>, <<"\\","}","\\","}">>, <<"{","{">>, <<"}","}">>, <<"a">>, <<"{">> >>

TokenSeqs == UNION {[1..n -> 1..Len(TokenKinds)] : n \in 0..MaxTokens}

RECURSIVE Flatten(_)
Flatten(ts) == IF ts = <<>> THEN <<>> ELSE TokenKinds[ts[1]] \o Flatten(Tail(ts))

(***************************************************************************)
(* State.                                                                  *)
(***************************************************************************)
VARIABLES
    pc,          \* main: "fetch", "emit", "finished", "aborted"; "off" outside it
    run,         \* the number of this run of main
    idx,         \* the chart the loop of line 196 is at
    pos,         \* calls of write_group_to_file done for this chart
    resp,        \* the responses of the sources, in order, as first received
    files,       \* the destination directory: file name -> text
    dest_exists, \* whether the destination directory exists
    files0,      \* the directory as this run found it
    prev,        \* the directory as the previous run left it
    emitted,     \* resource names whose file this run has opened for writing
    fsError,     \* a filesystem error has ended a run
    plan,        \* what is left of the loop body for the chart fetched
    given,       \* the argument of patch_json_for_multicluster_configuration
    outcome,     \* its run: PatchRun(given), once called
    ppc,         \* "call", "returned", "raised", "written"; "off" outside
    repr,        \* yaml_str_repr of the returned text
    tokens,      \* the pieces of the text yaml.dump produced
    ytext,       \* the text at lines 116-117
    epc          \* "dumped", "escaped", "unescaped"; "off" outside

mainVars == <<pc, run, idx, pos, resp, files, dest_exists, files0, prev, emitted, fsError, plan>>

patchVars == <<given, outcome, ppc, repr>>

escVars == <<tokens, ytext, epc>>

vars == <<mainVars, patchVars, escVars>>

NoPlan == [calls |-> <<>>, raises |-> FALSE]

NotCalled == [exc |-> "none", dumped |-> <<>>, content_array |-> <<>>, returns |-> FALSE, text |-> <<>>]

MainOff ==
    /\ pc = "off" /\ run = 0 /\ idx = 0 /\ pos = 0 /\ resp = <<>> /\ files = <<>>
    /\ dest_exists = FALSE /\ files0 = <<>> /\ prev = <<>> /\ emitted = {} /\ fsError = FALSE
    /\ plan = NoPlan

PatchOff == given = <<>> /\ outcome = NotCalled /\ ppc = "off" /\ repr = <<>>

EscOff == tokens = <<>> /\ ytext = <<>> /\ epc = "off"

(***************************************************************************)
(* main.                                                                   *)
(***************************************************************************)
MaxRuns == 2

Stale == [name |-> <<"o","l","d">>, url |-> "", condition |-> "", data |-> <<"o","l","d">>]

\* what the destination may hold before the first run
InitialDirs == {
    <<>>,
    [f \in { <<"s","t","a","l","e",".","y","a","m","l">>, <<"a",".","y","a","m","l">>, <<"g","r","a","f","a","n","a",".","y","a","m","l">> } |-> Stale] }

Init ==
    /\ pc = "fetch" /\ run = 1 /\ idx = 1 /\ pos = 0 /\ resp = <<>>
    /\ dest_exists \in BOOLEAN
    /\ files \in IF dest_exists THEN InitialDirs ELSE {<<>>}
    /\ files0 = files /\ prev = files /\ emitted = {} /\ fsError = FALSE
    /\ plan = NoPlan
    /\ PatchOff /\ EscOff

\* the for loop of line 196 moves on; after the last chart, 'Finished'
NextChart ==
    /\ pos' = 0
    /\ IF idx = Len(charts) THEN pc' = "finished" /\ idx' = idx
       ELSE pc' = "fetch" /\ idx' = idx + 1

\* an exception leaves main
Abort == pc' = "aborted" /\ UNCHANGED <<idx, pos>>

\* lines 197-206, 213-216: the request, the status check, the parse
Fetch ==
    /\ pc = "fetch"
    /\ \E r \in IF idx <= Len(resp) THEN {resp[idx]} ELSE Responses(charts[idx].type) :
         /\ resp' = IF idx <= Len(resp) THEN resp ELSE Append(resp, r)
         /\ plan' = IF StatusOk(r) THEN Plan(idx, r) ELSE NoPlan
         /\ IF ~StatusOk(r) THEN NextChart
            ELSE IF plan'.calls # <<>> THEN pc' = "emit" /\ UNCHANGED <<idx, pos>>
            ELSE IF plan'.raises THEN Abort
            ELSE NextChart
    /\ UNCHANGED <<run, files, dest_exists, files0, prev, emitted, fsError>>
    /\ UNCHANGED <<patchVars, escVars>>

\* after a call of write_group_to_file: the next call, the exception that
\* follows the last one, or the next chart
AfterCall ==
    IF pos + 1 < Len(plan.calls) THEN pc' = "emit" /\ pos' = pos + 1 /\ idx' = idx
    ELSE IF plan.raises THEN pc' = "aborted" /\ pos' = pos + 1 /\ idx' = idx
    ELSE NextChart

\* one call of write_group_to_file (lines 163-190)
Emit ==
    /\ pc = "emit"
    /\ LET call == plan.calls[pos + 1]
       IN  IF call.raises
           THEN Abort /\ UNCHANGED <<files, dest_exists, emitted>>
           ELSE /\ dest_exists' = TRUE
                /\ files' = WriteFile(files, FileName(call.resource), call.lines)
                /\ emitted' = emitted \cup {call.resource}
                /\ AfterCall
    /\ UNCHANGED <<run, resp, files0, prev, fsError, plan>>
    /\ UNCHANGED <<patchVars, escVars>>

\* a call of write_group_to_file that makedirs, open or write ends with an
\* OSError; a failed write leaves the file open() has truncated
EmitFails ==
    /\ pc = "emit"
    /\ LET call == plan.calls[pos + 1]
       IN  /\ ~call.raises
           /\ \E stage \in {"makedirs", "open", "write"} :
                /\ stage = "makedirs" => ~dest_exists
                /\ dest_exists' = (dest_exists \/ stage # "makedirs")
                /\ IF stage = "write"
                   THEN /\ files' = WriteFile(files, FileName(call.resource), Truncated)
                        /\ emitted' = emitted \cup {call.resource}
                   ELSE UNCHANGED <<files, emitted>>
    /\ fsError' = TRUE
    /\ Abort
    /\ UNCHANGED <<run, resp, files0, prev, plan>>
    /\ UNCHANGED <<patchVars, escVars>>

\* the maintainer runs the script again, the sources answering as before
Rerun ==
    /\ pc \in {"finished", "aborted"}
    /\ ~fsError
    /\ run < MaxRuns
    /\ run' = run + 1 /\ pc' = "fetch" /\ idx' = 1 /\ pos' = 0
    /\ files0' = files /\ prev' = files /\ emitted' = {} /\ plan' = NoPlan
    /\ UNCHANGED <<resp, files, dest_exists, fsError>>
    /\ UNCHANGED <<patchVars, escVars>>

Next == Fetch \/ Emit \/ EmitFails \/ Rerun

Spec == Init /\ [][Next]_vars

C2_SkipListedNeverEmitted ==
    \A k \in skip_list : replace(k, <<".","j","s","o","n">>, <<>>) \notin emitted

RECURSIVE EntriesKept(_)
\* the (filename, content) entries of the groups of a bundle, in order,
\* without the filenames of the skip list
EntriesKept(items) ==
    IF items = <<>> THEN <<>>
    ELSE SelectSeq(GroupKinds[items[1]].data, LAMBDA e : e[1] \notin skip_list)
             \o EntriesKept(Tail(items))

\* the first run has processed the YAML source, starting from an empty
\* destination, and is about to fetch the next source
YamlProcessed ==
    /\ run = 1 /\ pc = "fetch" /\ idx = 2
    /\ resp[1].status = 200
    /\ files0 = <<>>

\* the name of the file of entry e
BaseYaml(e) == replace(e[1], <<".","j","s","o","n">>, <<>>) \o <<".","y","a","m","l">>

\* C3 as stated: the number of files written equals the number of
\* non-skipped (group, filename) entries.
C3_OneFilePerEntry ==
    YamlProcessed => Cardinality(DOMAIN files) = Len(EntriesKept(resp[1].items))

\* C3: after the YAML source is processed the destination holds one file per
\* distinct base name (the filename with '.json' removed) among the
\* non-skipped entries, each with the text of the last entry of that base
\* name; the count equals the number of entries when the base names differ.
C3_OneFilePerBaseName ==
    YamlProcessed =>
        LET es == EntriesKept(resp[1].items)
        IN  /\ DOMAIN files = {BaseYaml(es[i]) : i \in 1..Len(es)}
            /\ \A i \in 1..Len(es) :
                 (\A j \in (i + 1)..Len(es) : BaseYaml(es[j]) # BaseYaml(es[i])) =>
                     files[BaseYaml(es[i])] =
                         FileText(replace(es[i][1], <<".","j","s","o","n">>, <<>>),
                                  patch_json_for_multicluster_configuration(es[i][2]),
                                  charts[1].source)
            /\ (\A i, j \in 1..Len(es) : i # j => BaseYaml(es[i]) # BaseYaml(es[j])) =>
                 Cardinality(DOMAIN files) = Len(es)

\* two entries of the bundle have gone to the same file
C3_Witness ==
    /\ YamlProcessed
    /\ files # <<>>
    /\ Cardinality(DOMAIN files) < Len(EntriesKept(resp[1].items))

\* the file each flat JSON source of the table is written to
FlatFile == <<
    <<>>,
    <<"g","r","a","f","a","n","a",".","y","a","m","l">>,
    <<"v","i","c","t","o","r","i","a","m","e","t","r","i","c","s",".","y","a","m","l">>,
    <<"v","m","a","g","e","n","t",".","y","a","m","l">>,
    <<"c","l","u","s","t","e","r","b","y","t","e","n","a","n","t",".","y","a","m","l">> >>

\* the response is a JSON object with a truthy 'annotations'
IsFlat(response) ==
    /\ response.status = 200
    /\ loads(response.text).ok
    /\ loads(response.text).node.t = "obj"
    /\ HasKey(loads(response.text).node.v, <<"a","n","n","o","t","a","t","i","o","n","s">>)
    /\ Truthy(DictGet(loads(response.text).node.v, <<"a","n","n","o","t","a","t","i","o","n","s">>))

\* C4: a JSON source whose object has a truthy 'annotations' gets exactly one
\* call of write_group_to_file; it writes the file named after the last
\* segment of the URL with '.json' replaced by '.yaml', and no other file is
\* created or changed for that source.
C4_FlatJsonOneFile ==
    [][/\ (pc = "fetch" /\ charts[idx].type = "json" /\ IsFlat(resp'[idx])) =>
              pc' = "emit" /\ idx' = idx /\ Len(plan'.calls) = 1
       /\ (pc = "emit" /\ charts[idx].type = "json" /\ IsFlat(resp[idx])) =>
              /\ pc' # "emit"
              /\ fsError' \/ (FlatFile[idx] \in DOMAIN files' /\ files'[FlatFile[idx]] # Truncated)
              /\ DOMAIN files' \subseteq DOMAIN files \cup {FlatFile[idx]}
              /\ \A f \in DOMAIN files \ {FlatFile[idx]} : f \in DOMAIN files' /\ files'[f] = files[f]]_vars

\* the etcd source answered with a flat dashboard and grafana.yaml is there
C4_Witness ==
    /\ run = 1 /\ pc = "fetch" /\ idx = 3
    /\ IsFlat(resp[2])
    /\ files0 = <<>>
    /\ <<"g","r","a","f","a","n","a",".","y","a","m","l">> \in DOMAIN files

\* C8: a second run with the same responses leaves the destination as the
\* first run left it, whatever the destination held before the first run
\* (runs ended by an error of the filesystem aside).
C8_SecondRunSame ==
    (run >= 2 /\ pc \in {"finished", "aborted"} /\ ~fsError) => files = prev

\* a second run has finished after rewriting files, next to a stale one
C8_Witness ==
    /\ run = 2 /\ pc = "finished" /\ ~fsError
    /\ Cardinality(emitted) >= 2
    /\ <<"s","t","a","l","e",".","y","a","m","l">> \in DOMAIN files

\* C9: at every point of a run, aborted runs included, every file the run
\* found is still there, and every file that is not <name>.yaml of a
\* dashboard emitted in this run is a file the run found, with the text it
\* had.
C9_OnlyEmittedTouched ==
    /\ \A f \in DOMAIN files0 : f \in DOMAIN files
    /\ \A f \in DOMAIN files :
         f \notin {r \o <<".","y","a","m","l">> : r \in emitted} =>
             f \in DOMAIN files0 /\ files[f] = files0[f]

\* a run ended part-way by a filesystem error, with one stale file
\* overwritten and another left as it was
C9_Witness ==
    /\ pc = "aborted" /\ fsError
    /\ <<"a">> \in emitted
    /\ <<"a",".","y","a","m","l">> \in DOMAIN files0 /\ files[<<"a",".","y","a","m","l">>] # files0[<<"a",".","y","a","m","l">>]
    /\ <<"s","t","a","l","e",".","y","a","m","l">> \in DOMAIN files /\ files[<<"s","t","a","l","e",".","y","a","m","l">>] = Stale

(***************************************************************************)
(* patch_json_for_multicluster_configuration and the representation of its *)
(* result, on their own.                                                   *)
(***************************************************************************)
InitPatch ==
    /\ given \in PatchInputs /\ outcome = NotCalled /\ ppc = "call" /\ repr = <<>>
    /\ MainOff /\ EscOff

\* line 171
PatchCall ==
    /\ ppc = "call"
    /\ outcome' = PatchRun(given)
    /\ ppc' = IF outcome'.returns THEN "returned" ELSE "raised"
    /\ UNCHANGED <<given, repr, mainVars, escVars>>

\* lines 173-175
Represent ==
    /\ ppc = "returned"
    /\ repr' = yaml_str_repr(<<"d",".","j","s","o","n">>, outcome.text)
    /\ ppc' = "written"
    /\ UNCHANGED <<given, outcome, mainVars, escVars>>

NextPatch == PatchCall \/ Represent

SpecPatch == InitPatch /\ [][NextPatch]_vars

(***************************************************************************)
(* Properties of patch_json_for_multicluster_configuration, checked under  *)
(* SpecPatch.                                                              *)
(***************************************************************************)
\* content is a dashboard with a templating.list entry named 'cluster'
HasClusterVariable(content) ==
    /\ loads(content).ok
    /\ Subscript(loads(content).node, <<"t","e","m","p","l","a","t","i","n","g">>).exc = "none"
    /\ Subscript(Subscript(loads(content).node, <<"t","e","m","p","l","a","t","i","n","g">>).node, <<"l","i","s","t">>).exc = "none"
    /\ LET list == Subscript(Subscript(loads(content).node, <<"t","e","m","p","l","a","t","i","n","g">>).node, <<"l","i","s","t">>).node
       IN  /\ list.t = "arr"
           /\ \E i \in 1..Len(list.v) :
                /\ list.v[i].t = "obj"
                /\ HasKey(list.v[i].v, <<"n","a","m","e">>)
                /\ DictGet(list.v[i].v, <<"n","a","m","e">>) = Node("str", <<"c","l","u","s","t","e","r">>)

\* C5: the text returned for a dashboard with a 'cluster' entry never
\* contains the sentinel.
C5_NoSentinelLeft ==
    (ppc \in {"returned", "written"} /\ outcome.exc = "none" /\ HasClusterVariable(given)) =>
        ~Contains(outcome.text, Sentinel)

\* C6: whatever step of the patch fails, the function returns the original
\* content unchanged.
C6_FailureFallsBack ==
    (ppc \in {"returned", "raised", "written"} /\ outcome.exc # "none") =>
        outcome.returns /\ outcome.text = given

\* the lines of the dumped text that hold an empty literal and differ from
\* the line of the same number of the original text
DifferingLines(dumped, original) ==
    {i \in 1..Len(dumped) : HasEmptyLiteral(dumped[i]) /\ dumped[i] # original[i]}

\* C10: every differing line with an empty literal becomes three lines and
\* every other line is kept, so no line of the dumped text is dropped.
C10_NoLineDropped ==
    (ppc \in {"returned", "written"} /\ outcome.exc = "none") =>
        Len(outcome.content_array) =
            Len(outcome.dumped)
                + 2 * Cardinality(DifferingLines(outcome.dumped, split(given, NL)))

(***************************************************************************)
(* Lines 116-117 of yaml_str_repr on their own.                            *)
(***************************************************************************)
InitEscape ==
    /\ tokens \in TokenSeqs /\ ytext = Flatten(tokens) /\ epc = "dumped"
    /\ MainOff /\ PatchOff

\* line 116
Escape ==
    /\ epc = "dumped"
    /\ ytext' = escape(ytext)
    /\ epc' = "escaped"
    /\ UNCHANGED <<tokens, mainVars, patchVars>>

\* line 117
Unescape ==
    /\ epc = "escaped"
    /\ ytext' = unescape(ytext)
    /\ epc' = "unescaped"
    /\ UNCHANGED <<tokens, mainVars, patchVars>>

NextEscape == Escape \/ Unescape

SpecEscape == InitEscape /\ [][NextEscape]_vars

(***************************************************************************)
(* Properties of escape and unescape, checked under SpecEscape.            *)
(***************************************************************************)
\* what the claim asks of each piece
Image(token) ==
    IF token = <<"\\","{","\\","{">> THEN <<"{","{">>
    ELSE IF token = <<"\\","}","\\","}">> THEN <<"}","}">>
    ELSE IF token = <<"{","{">> THEN <<"{","{",BT,"{","{",BT,"}","}">>
    ELSE IF token = <<"}","}">> THEN <<"{","{",BT,"}","}",BT,"}","}">>
    ELSE token

RECURSIVE Images(_)
Images(ts) == IF ts = <<>> THEN <<>> ELSE Image(TokenKinds[ts[1]]) \o Images(Tail(ts))

\* the pieces are the reading of their text from the left: no lone brace
\* stands before a brace it would pair with
Canonical(ts) ==
    \A i \in 1..(Len(ts) - 1) :
        TokenKinds[ts[i]] = <<"{">> => TokenKinds[ts[i + 1]][1] # "{"

\* C7: after escape and unescape each backslash-escaped brace pair is a bare
\* pair and every other pair is in its engine-escaped form.
C7_EscapedByPiece ==
    (epc = "unescaped" /\ Canonical(tokens)) => ytext = Images(tokens)

=============================================================================
